---- MODULE Spec2Model ----
\* Website status checker (final_project/src/main.rs): the probe executor
\* check_once_with_retries, the worker pool of spawn_workers, the round runner
\* run_once, the statistics accumulator Stats and the periodic scheduler
\* run_periodic.  Durations are integers in milliseconds.
EXTENDS Integers, Sequences, FiniteSets, TLC

\* ---------------------------------------------------------------- bounds
MaxRetries == 1
MaxChecks == 2
MaxUrls == 2
MaxWorkers == 2
MaxRounds == 2
MaxSamples == 4
MaxKvLen == 4

\* ------------------------------------------------------ program constants
BackoffMs == 200
PollMs == 100
SlowMs == 300
MsPerSec == 1000

None == "none"

\* ----------------------------------------------------- outcomes (WebsiteStatus)
\* status: Result<u16, String>.  The error strings built with format! are kept
\* as their parts: the tag and the values interpolated into the message.
StatusOk(code) ==
  [ok |-> TRUE, code |-> code, tag |-> "", name |-> "", got |-> "", expected |-> ""]

ErrMismatch(k, v, expected) ==
  [ok |-> FALSE, code |-> 0, tag |-> "mismatch", name |-> k, got |-> v, expected |-> expected]

ErrMissing(k) ==
  [ok |-> FALSE, code |-> 0, tag |-> "missing header", name |-> k, got |-> "", expected |-> ""]

ErrTransport ==
  [ok |-> FALSE, code |-> 0, tag |-> "transport error", name |-> "", got |-> "", expected |-> ""]

WebsiteStatus(url, status, response_time) ==
  [url |-> url, status |-> status, response_time |-> response_time]

\* ------------------------------------------------ the HTTP client capability
\* What one GET can produce: no HTTP exchange at all, or a response with a
\* status code and headers (a header is absent when it maps to None).
HeaderNames == {"Content-Type", "Server"}
HeaderValues == {"text/plain", "text/html"}
Codes == {200, 404, 503}
Headers == [HeaderNames -> HeaderValues \cup {None}]
TransportFailure == [http |-> FALSE, code |-> 0, headers |-> [h \in HeaderNames |-> None]]
HttpResponses == [http : {TRUE}, code : Codes, headers : Headers]
Responses == HttpResponses \cup {TransportFailure}

\* agent.get(url).call(): Ok(resp) for a status below 400,
\* Err(ureq::Error::Status) for a status of 400 and above, Err(e) otherwise.
AgentCall(r) ==
  IF ~r.http THEN "Err" ELSE IF r.code >= 400 THEN "Status" ELSE "Ok"

\* resp.header(k)
RespHeader(r, k) == r.headers[k]

\* A validation that keeps going after a failure: the last failing pair decides.
RECURSIVE HeaderValidationLastWins(_, _, _)
HeaderValidationLastWins(r, header_checks, i) ==
  IF i > Len(header_checks) THEN StatusOk(r.code)
  ELSE LET k == header_checks[i][1]
           expected == header_checks[i][2]
           v == RespHeader(r, k)
           rest == HeaderValidationLastWins(r, header_checks, i + 1)
       IN IF (v # None /\ v = expected) \/ ~rest.ok THEN rest
          ELSE IF v # None THEN ErrMismatch(k, v, expected)
          ELSE ErrMissing(k)

\* The for loop over header_checks from index i on: the first pair that does
\* not match returns; falling out of the loop returns Ok(code).
RECURSIVE HeaderValidation(_, _, _)
HeaderValidation(r, header_checks, i) ==
  IF i > Len(header_checks) THEN StatusOk(r.code)
  ELSE LET k == header_checks[i][1]
           expected == header_checks[i][2]
           v == RespHeader(r, k)
       IN IF v # None /\ v = expected THEN HeaderValidation(r, header_checks, i + 1)
          ELSE IF v # None THEN ErrMismatch(k, v, expected)
          ELSE ErrMissing(k)

\* The arm of `match agent.get(url).call()` taken for a received response.
ResponseStatus(r, header_checks) ==
  IF AgentCall(r) = "Ok" THEN HeaderValidation(r, header_checks, 1)
  ELSE StatusOk(r.code)

\* ------------------------------------------------- check_once_with_retries
\* The local state of one call: attempt, start_all, start, the clock `now`,
\* and what it has done so far (log: the responses of its GETs and how long
\* each took; sleeps: the backoff sleeps).
ProbeStart(url, retries, header_checks) ==
  [pc |-> "call", url |-> url, retries |-> retries, header_checks |-> header_checks,
   attempt |-> 0, start_all |-> 0, start |-> 0, now |-> 0,
   log |-> <<>>, sleeps |-> 0, ret |-> None]

\* One iteration of the loop up to its return or its backoff sleep: the GET
\* answers r after d milliseconds.
\* The budget test off by one: gives up when attempt reaches retries.
TransportArmOffByOne(p, q) ==
  LET attempt == p.attempt + 1
  IN IF attempt >= p.retries
     THEN [q EXCEPT !.attempt = attempt, !.pc = "done",
                    !.ret = WebsiteStatus(p.url, ErrTransport, q.now - q.start_all)]
     ELSE [q EXCEPT !.attempt = attempt, !.pc = "backoff"]

TransportArm(p, q) ==
  LET attempt == p.attempt + 1
  IN IF attempt > p.retries
     THEN [q EXCEPT !.attempt = attempt, !.pc = "done",
                    !.ret = WebsiteStatus(p.url, ErrTransport, q.now - q.start_all)]
     ELSE [q EXCEPT !.attempt = attempt, !.pc = "backoff"]

\* The elapsed time of a response measured from start_all.
ResponseArmSinceStartAll(p, q, r) ==
  [q EXCEPT !.pc = "done",
            !.ret = WebsiteStatus(p.url, ResponseStatus(r, p.header_checks), q.now - q.start_all)]

ResponseArm(p, q, r) ==
  [q EXCEPT !.pc = "done",
            !.ret = WebsiteStatus(p.url, ResponseStatus(r, p.header_checks), q.now - q.start)]

\* An error status retried like a transport failure.
ProbeCallRetryStatus(p, r, d) ==
  LET q == [p EXCEPT !.start = p.now, !.now = p.now + d,
                     !.log = Append(p.log, [resp |-> r, d |-> d])]
  IN IF AgentCall(r) # "Ok" THEN TransportArm(p, q) ELSE ResponseArm(p, q, r)

ProbeCall(p, r, d) ==
  LET q == [p EXCEPT !.start = p.now, !.now = p.now + d,
                     !.log = Append(p.log, [resp |-> r, d |-> d])]
  IN IF AgentCall(r) = "Err" THEN TransportArm(p, q) ELSE ResponseArm(p, q, r)

\* thread::sleep(Duration::from_millis(200))
ProbeBackoff(p) ==
  [p EXCEPT !.now = p.now + BackoffMs, !.sleeps = p.sleeps + 1, !.pc = "call"]

\* ------------------------------------------------------------------ Stats
StatsNew == [samples |-> 0, ok |-> 0, total_response |-> 0]

\* Every outcome that carries a status code counted as a success.
StatsRecordAnyCode(s, o) ==
  [samples |-> s.samples + 1,
   ok |-> IF o.status.ok THEN s.ok + 1 ELSE s.ok,
   total_response |-> s.total_response + o.response_time]

\* The latency of the outcome stored instead of added.
StatsRecordOverwrite(s, o) ==
  [samples |-> s.samples + 1,
   ok |-> IF o.status.ok /\ 200 <= o.status.code /\ o.status.code <= 399
          THEN s.ok + 1 ELSE s.ok,
   total_response |-> o.response_time]

StatsRecord(s, o) ==
  [samples |-> s.samples + 1,
   ok |-> IF o.status.ok /\ 200 <= o.status.code /\ o.status.code <= 399
          THEN s.ok + 1 ELSE s.ok,
   total_response |-> s.total_response + o.response_time]

\* The cumulative latency divided by the successes, not by the samples.
StatsAvgMsPerOk(s) ==
  IF s.ok = 0 THEN 0 ELSE s.total_response \div s.ok

\* Stats::avg_ms: u128 division of total_response.as_millis() by samples.
\* Latencies are whole milliseconds here, so as_millis() loses nothing.
StatsAvgMs(s) ==
  IF s.samples = 0 THEN 0 ELSE s.total_response \div s.samples

\* Stats::uptime_pct: the f64 quotient, kept as the fraction num/den that the
\* f64 division rounds.
StatsUptimePct(s) ==
  IF s.samples = 0 THEN [num |-> 0, den |-> 1]
  ELSE [num |-> s.ok * 100, den |-> s.samples]

\* agg.entry(r.url.clone()).or_insert_with(Stats::new).record(r)
\* A map that keeps only the entry of the outcome recorded last.
AggRecordLastOnly(a, r) ==
  [u \in {r.url} |->
     StatsRecord(IF r.url \in DOMAIN a THEN a[r.url] ELSE StatsNew, r)]

AggRecord(a, r) ==
  IF r.url \in DOMAIN a THEN [a EXCEPT ![r.url] = StatsRecord(@, r)]
  ELSE [u \in DOMAIN a \cup {r.url} |->
          IF u = r.url THEN StatsRecord(StatsNew, r) ELSE a[u]]

\* for r in &results { ... }, from index i on
RECURSIVE AggRecordAll(_, _, _)
AggRecordAll(a, rs, i) ==
  IF i > Len(rs) THEN a ELSE AggRecordAll(AggRecord(a, rs[i]), rs, i + 1)

\* ------------------------------------------------- the server of the tests
\* handle_conn and respond: what a GET of `url` gets under a client timeout.
TestHeaders == [h \in HeaderNames |-> IF h = "Content-Type" THEN "text/plain" ELSE None]

TestServer(url, timeout) ==
  IF url = "/ok" THEN [resp |-> [http |-> TRUE, code |-> 200, headers |-> TestHeaders], d |-> 0]
  ELSE IF url = "/slow" THEN
    IF timeout < SlowMs THEN [resp |-> TransportFailure, d |-> timeout]
    ELSE [resp |-> [http |-> TRUE, code |-> 200, headers |-> TestHeaders], d |-> SlowMs]
  ELSE IF url = "/err" THEN [resp |-> [http |-> TRUE, code |-> 503, headers |-> TestHeaders], d |-> 0]
  ELSE [resp |-> [http |-> TRUE, code |-> 404, headers |-> TestHeaders], d |-> 0]

\* check_once_with_retries run to its return against the server of the tests.
RECURSIVE RunProbe(_, _)
RunProbe(p, timeout) ==
  IF p.pc = "done" THEN p.ret
  ELSE IF p.pc = "backoff" THEN RunProbe(ProbeBackoff(p), timeout)
  ELSE LET a == TestServer(p.url, timeout)
       IN RunProbe(ProbeCall(p, a.resp, a.d), timeout)

CheckOnceWithRetries(url, c) ==
  RunProbe(ProbeStart(url, c.retries, c.header_checks), c.timeout)

\* ------------------------------------------------------------- parse_args
\* Strings are TLA+ strings.  Chars gives the pieces of a string in order:
\* each '=', ' ' and '#' and each leading '-' is a piece of its own, and every
\* maximal run of other characters is one piece.  CharTable lists the strings
\* that have more than one piece; any other non-empty string is one piece.
CharTable ==
  [s \in {"Content-Type=text/plain", " Server = text/html ", "Server=",
          "=text/plain", "# sites", " /err ", "--bogus", "-1"} |->
     CASE s = "Content-Type=text/plain" -> <<"Content-Type", "=", "text/plain">>
       [] s = " Server = text/html " -> <<" ", "Server", " ", "=", " ", "text/html", " ">>
       [] s = "Server=" -> <<"Server", "=">>
       [] s = "=text/plain" -> <<"=", "text/plain">>
       [] s = "# sites" -> <<"#", " ", "sites">>
       [] s = " /err " -> <<" ", "/err", " ">>
       [] s = "--bogus" -> <<"-", "-", "bogus">>
       [] s = "-1" -> <<"-", "1">>]

FlagNames == {"--workers", "--timeout-ms", "--retries", "--period", "--header", "--file"}

Chars(s) ==
  IF s \in DOMAIN CharTable THEN CharTable[s]
  ELSE IF s = "" THEN <<>>
  ELSE IF s \in FlagNames THEN <<"-", "-", s>>
  ELSE <<s>>

\* to_string of a slice of pieces
Str(cs) ==
  IF cs = <<>> THEN ""
  ELSE IF Len(cs) = 1 THEN cs[1]
  ELSE CHOOSE s \in DOMAIN CharTable : CharTable[s] = cs

\* char::is_whitespace, for the characters that occur
Whitespace == {" ", "\t"}

\* str::trim
RECURSIVE TrimStart(_)
TrimStart(cs) ==
  IF cs # <<>> /\ cs[1] \in Whitespace THEN TrimStart(Tail(cs)) ELSE cs

RECURSIVE TrimEnd(_)
TrimEnd(cs) ==
  IF cs # <<>> /\ cs[Len(cs)] \in Whitespace
  THEN TrimEnd(SubSeq(cs, 1, Len(cs) - 1)) ELSE cs

Trim(cs) == TrimEnd(TrimStart(cs))

\* rsplitn in place of splitn: the index of the last '=' of cs, or 0.
LastEq(cs) ==
  IF \E i \in 1..Len(cs) : cs[i] = "="
  THEN CHOOSE i \in 1..Len(cs) : cs[i] = "=" /\ \A j \in (i + 1)..Len(cs) : cs[j] # "="
  ELSE 0

\* The index of the first '=' of cs, or 0.
FirstEq(cs) ==
  IF \E i \in 1..Len(cs) : cs[i] = "="
  THEN CHOOSE i \in 1..Len(cs) : cs[i] = "=" /\ \A j \in 1..(i - 1) : cs[j] # "="
  ELSE 0

\* parse_header_kv on the characters of its argument: splitn(2, '='), both
\* parts trimmed; Err("missing value") without a second part, Err("empty key").
ParseHeaderKvChars(cs) ==
  LET i == FirstEq(cs)
      k == Trim(SubSeq(cs, 1, i - 1))
      v == Trim(SubSeq(cs, i + 1, Len(cs)))
  IN IF i = 0 THEN [ok |-> FALSE, err |-> "missing value", k |-> <<>>, v |-> <<>>]
     ELSE IF k = <<>> THEN [ok |-> FALSE, err |-> "empty key", k |-> <<>>, v |-> <<>>]
     ELSE [ok |-> TRUE, err |-> None, k |-> k, v |-> v]

\* parse_header_kv with its argument and its Strings as strings.
parse_header_kv(s) ==
  LET r == ParseHeaderKvChars(Chars(s))
  IN [ok |-> r.ok, err |-> r.err, k |-> Str(r.k), v |-> Str(r.v)]

\* str::parse of the unsigned integers the arguments use; any other text fails.
Usize ==
  [t \in {"0", "1", "2", "3", "4", "50", "2000"} |->
     CASE t = "0" -> 0 [] t = "1" -> 1 [] t = "2" -> 2 [] t = "3" -> 3 [] t = "4" -> 4
       [] t = "50" -> 50 [] t = "2000" -> 2000]

\* fs::read_to_string and content.lines(): the files there are.
FileSystem ==
  [path \in {"urls.txt", "notes.txt"} |->
     IF path = "urls.txt" THEN <<"/ok", "", "# sites", " /err ">>
     ELSE <<"# sites", "">>]

ReadToString(path) ==
  IF path \in DOMAIN FileSystem THEN [ok |-> TRUE, lines |-> FileSystem[path]]
  ELSE [ok |-> FALSE, lines |-> <<>>]

\* for line in content.lines() { ... }, from line i on
RECURSIVE FileUrls(_, _, _)
FileUrls(urls, lines, i) ==
  IF i > Len(lines) THEN urls
  ELSE LET url == Trim(Chars(lines[i]))
       IN IF url # <<>> /\ url[1] # "#"
          THEN FileUrls(Append(urls, Str(url)), lines, i + 1)
          ELSE FileUrls(urls, lines, i + 1)

\* Config::default
DefaultConfig ==
  [workers |-> 50, timeout |-> 5000, retries |-> 0, period_secs |-> 0,
   header_checks |-> <<>>, urls |-> <<>>]

ParseOk(c) == [ok |-> TRUE, err |-> None, cfg |-> c]
ParseErr(e) == [ok |-> FALSE, err |-> e, cfg |-> DefaultConfig]

NumFlags == {"--workers", "--timeout-ms", "--retries", "--period"}
FieldOf ==
  [f \in NumFlags |->
     CASE f = "--workers" -> "workers" [] f = "--timeout-ms" -> "timeout"
       [] f = "--retries" -> "retries" [] f = "--period" -> "period_secs"]

\* while let Some(arg) = args.next() { match ... }, from argument i on
RECURSIVE ParseLoop(_, _, _)
ParseLoop(args, i, c) ==
  IF i > Len(args) THEN ParseOk(c)
  ELSE LET arg == args[i] IN
    IF arg \in FlagNames THEN
      IF i = Len(args) THEN ParseErr("requires a value")
      ELSE LET val == args[i + 1] IN
        IF arg \in NumFlags THEN
          IF val \in DOMAIN Usize
          THEN ParseLoop(args, i + 2, [c EXCEPT ![FieldOf[arg]] = Usize[val]])
          ELSE ParseErr("invalid value")
        ELSE IF arg = "--header" THEN
          LET kv == parse_header_kv(val)
          IN IF kv.ok
             THEN ParseLoop(args, i + 2,
                            [c EXCEPT !.header_checks = Append(@, <<kv.k, kv.v>>)])
             ELSE ParseErr(kv.err)
        ELSE
          LET f == ReadToString(val)
          IN IF f.ok
             THEN ParseLoop(args, i + 2, [c EXCEPT !.urls = FileUrls(@, f.lines, 1)])
             ELSE ParseErr("failed to read")
    ELSE IF Chars(arg) # <<>> /\ Chars(arg)[1] = "-" THEN ParseErr("unknown flag")
    ELSE ParseLoop(args, i + 1, [c EXCEPT !.urls = Append(@, arg)])

Max(a, b) == IF a >= b THEN a ELSE b
Min(a, b) == IF a <= b THEN a ELSE b

\* The worker count left as the arguments gave it, but for the floor of 1.
ClampWorkersNoMin(workers, n) == Max(workers, 1)

\* cfg.workers.max(1).min(cfg.urls.len().max(1))
ClampWorkers(workers, n) == Min(Max(workers, 1), Max(n, 1))

\* The test for an empty URL list left out.
parse_args_unchecked(args) ==
  LET r == ParseLoop(args, 1, DefaultConfig)
  IN IF ~r.ok THEN r
     ELSE ParseOk([r.cfg EXCEPT !.workers = ClampWorkers(@, Len(r.cfg.urls))])

parse_args(args) ==
  LET r == ParseLoop(args, 1, DefaultConfig)
  IN IF ~r.ok THEN r
     ELSE IF r.cfg.urls = <<>> THEN ParseErr("no URLs provided")
     ELSE ParseOk([r.cfg EXCEPT !.workers = ClampWorkers(@, Len(r.cfg.urls))])

\* ------------------------------------------------------------------ state
VARIABLES
  probe, ptimeout,      \* one call of check_once_with_retries and its timeout
  st, lastRec,          \* one Stats and the last two record() applied to it
  snap,                 \* what avg_ms() and uptime_pct() returned for it
  argv, entry,          \* env::args().skip(1) and who calls: main or a test
  cfg,                  \* Config
  mpc,                  \* where the main thread is in main/run_periodic/run_once
  stop, watcher,        \* run_periodic: shutdown flag and the stdin watcher thread
  agg, rounds, elapsed, \* run_periodic: agg, rounds started, start.elapsed()
  jobq, jobTx, lock,    \* run_once: job channel, job_tx alive, holder of the job_rx mutex
  sent,                 \* run_once: jobs enqueued so far
  resq, results,        \* run_once: result channel, results
  shutdown, joined,     \* run_once: shutdown flag, handles joined so far
  wpc, wjob,            \* per worker thread: position and the job it holds
  hist,                 \* history: when stop was set and what followed, and
                        \* how many aggregate reports were printed
  kv                    \* one call of parse_header_kv: its argument and result

pvars == <<probe, ptimeout>>
svars == <<st, lastRec, snap>>
kvars == <<kv>>
rvars == <<jobq, jobTx, lock, sent, resq, results, shutdown, joined, wpc, wjob>>
mvars == <<argv, entry, cfg, mpc, stop, watcher, agg, rounds, elapsed, hist>>

vars == <<probe, ptimeout, st, lastRec, snap, argv, entry, cfg, mpc, stop, watcher, agg, rounds, elapsed,
          jobq, jobTx, lock, sent, resq, results, shutdown, joined, wpc, wjob, hist, kv>>

NoConfig == [workers |-> 0, timeout |-> 0, retries |-> 0, period_secs |-> 0,
             header_checks |-> <<>>, urls |-> <<>>]
NoHist == [stopAt |-> None, sleepsAfterStop |-> 0, roundsAfterStop |-> 0, reports |-> 0]

ProbeIdle == probe = None /\ ptimeout = 0
NoKvResult == [ok |-> FALSE, err |-> None, k |-> <<>>, v |-> <<>>]
KvIdle == kv = [s |-> <<>>, n |-> 0, ret |-> NoKvResult]
NoOutcome == WebsiteStatus("", StatusOk(0), 0)
NoRec == [n |-> 0, before |-> StatsNew, o |-> NoOutcome,
          before2 |-> StatsNew, o2 |-> NoOutcome]
NoSnap == [n |-> 0, avg_ms |-> 0, uptime_pct |-> [num |-> 0, den |-> 1]]
StatsIdle == st = StatsNew /\ lastRec = NoRec /\ snap = NoSnap
RoundIdle ==
  /\ jobq = <<>> /\ jobTx = FALSE /\ lock = 0 /\ sent = 0 /\ resq = <<>> /\ results = <<>>
  /\ shutdown = FALSE /\ joined = 0 /\ wpc = <<>> /\ wjob = <<>>
MainIdle ==
  /\ argv = <<>> /\ entry = None /\ cfg = NoConfig /\ mpc = None /\ stop = FALSE /\ watcher = None
  /\ agg = <<>> /\ rounds = 0 /\ elapsed = 0 /\ hist = NoHist
  /\ RoundIdle

\* --------------------------------------------------- specification: one probe
RECURSIVE SeqsUpTo(_, _)
SeqsUpTo(S, n) ==
  IF n = 0 THEN {<<>>}
  ELSE LET shorter == SeqsUpTo(S, n - 1)
       IN shorter \cup {Append(s, x) : s \in {t \in shorter : Len(t) = n - 1}, x \in S}

HeaderChecks == SeqsUpTo(HeaderNames \X HeaderValues, MaxChecks)
Timeouts == {50, 2000}

\* How long a GET can take: it fails at the timeout, or answers or fails
\* before it.
Durations(timeout) == {0, 10, timeout}

ProbeInit ==
  /\ ptimeout \in Timeouts
  /\ \E retries \in 0..MaxRetries, hc \in HeaderChecks :
       probe = ProbeStart("/ok", retries, hc)
  /\ StatsIdle /\ MainIdle /\ KvIdle

PCall ==
  /\ probe.pc = "call"
  /\ \E r \in Responses, d \in Durations(ptimeout) : probe' = ProbeCall(probe, r, d)
  /\ UNCHANGED <<ptimeout, svars, mvars, rvars, kvars>>

PBackoff ==
  /\ probe.pc = "backoff"
  /\ probe' = ProbeBackoff(probe)
  /\ UNCHANGED <<ptimeout, svars, mvars, rvars, kvars>>

ProbeNext == PCall \/ PBackoff

SpecProbe == ProbeInit /\ [][ProbeNext]_vars

\* -------------------------------------------------- properties of the probe
PLog == probe.log
PDone == probe.pc = "done"
PLast == PLog[Len(PLog)]
AllTransport == \A i \in 1..Len(PLog) : ~PLog[i].resp.http

RECURSIVE SumD(_, _)
SumD(log, n) == IF n = 0 THEN 0 ELSE SumD(log, n - 1) + log[n].d

\* C5: a probe whose every GET ends in a transport failure makes exactly
\* retries + 1 GETs with retries backoff sleeps between them, and then returns
\* one failure tagged "transport error"; until then it has returned nothing.
C5_TransportExhausted ==
  AllTransport =>
    /\ PDone => /\ Len(PLog) = probe.retries + 1
                /\ probe.sleeps = probe.retries
                /\ ~probe.ret.status.ok
                /\ probe.ret.status.tag = "transport error"
    /\ ~PDone => /\ Len(PLog) <= probe.retries
                 /\ probe.ret = None
                 /\ probe.sleeps \in {Len(PLog) - 1, Len(PLog)}

C5_Witness ==
  /\ PDone /\ AllTransport /\ probe.retries = 1
  /\ Len(PLog) = 2 /\ probe.sleeps = 1

\* C6: a received response of any status ends the probe: it is the last GET
\* of the log even when retry budget remains, and a 503 answered to the first
\* GET gives an outcome carrying 503 after that single attempt.
C6_NoRetryAfterResponse ==
  /\ \A i \in 1..Len(PLog) : PLog[i].resp.http => (i = Len(PLog) /\ PDone)
  /\ (Len(PLog) >= 1 /\ PLog[1].resp.http /\ PLog[1].resp.code = 503)
       => (probe.ret.status = StatusOk(503) /\ Len(PLog) = 1)

C6_Witness ==
  /\ PDone /\ Len(PLog) = 1 /\ probe.retries >= 1 /\ probe.attempt = 0
  /\ PLog[1].resp.http /\ PLog[1].resp.code = 503
  /\ probe.ret.status = StatusOk(503)

\* The pairs of header_checks the response r does not satisfy.
Failing(r, hc) == {i \in 1..Len(hc) : r.headers[hc[i][1]] # hc[i][2]}
FirstFailing(r, hc) == CHOOSE i \in Failing(r, hc) : \A j \in Failing(r, hc) : i <= j

\* What the first failing pair i of hc makes of response r.
FailureOf(r, hc, i) ==
  IF r.headers[hc[i][1]] = None
  THEN [ok |-> FALSE, code |-> 0, tag |-> "missing header", name |-> hc[i][1],
        got |-> "", expected |-> ""]
  ELSE [ok |-> FALSE, code |-> 0, tag |-> "mismatch", name |-> hc[i][1],
        got |-> r.headers[hc[i][1]], expected |-> hc[i][2]]

\* C7: header validation decides the outcome of every received response,
\* whatever its status code: one with a failing pair gives a failure outcome.
C7_ValidationOnEveryStatus ==
  (PDone /\ PLast.resp.http /\ Failing(PLast.resp, probe.header_checks) # {})
    => /\ ~probe.ret.status.ok
       /\ probe.ret.status.tag \in {"missing header", "mismatch"}

\* C8: for a response that reaches header validation the first failing pair
\* in configured order decides: missing header <name> when absent, a mismatch
\* naming actual and expected value when different; the outcome carries the
\* status code exactly when no pair fails.
C8_FirstFailingPairDecides ==
  (PDone /\ PLast.resp.http /\ PLast.resp.code < 400) =>
    LET r == PLast.resp
        hc == probe.header_checks
    IN /\ Failing(r, hc) = {} => probe.ret.status = StatusOk(r.code)
       /\ Failing(r, hc) # {} => probe.ret.status = FailureOf(r, hc, FirstFailing(r, hc))
       /\ probe.ret.status.ok <=> (\A i \in 1..Len(hc) : r.headers[hc[i][1]] = hc[i][2])

C8_Witness ==
  /\ PDone /\ PLast.resp.http /\ PLast.resp.code < 400
  /\ Len(probe.header_checks) = 2
  /\ Failing(PLast.resp, probe.header_checks) = {1, 2}
  /\ probe.ret.status.tag = "mismatch"
  /\ PLast.resp.headers[probe.header_checks[2][1]] = None

\* C9: the elapsed time of an outcome built from a response is the duration
\* of the last GET alone; that of a transport-exhausted failure spans every
\* GET and backoff sleep since the first, so with retries = 1 and both GETs
\* lasting the timeout it is at least twice the timeout.
C9_ElapsedAsymmetry ==
  PDone =>
    /\ PLast.resp.http => probe.ret.response_time = PLast.d
    /\ ~PLast.resp.http =>
         probe.ret.response_time = SumD(PLog, Len(PLog)) + probe.sleeps * BackoffMs
    /\ (~PLast.resp.http /\ probe.retries = 1
         /\ \A i \in 1..Len(PLog) : PLog[i].d = ptimeout)
         => probe.ret.response_time >= 2 * ptimeout

C9_Witness ==
  /\ PDone /\ Len(PLog) = 2 /\ PLast.resp.http
  /\ PLog[1].d > 0 /\ PLast.d > 0
  /\ probe.ret.response_time = PLast.d
  /\ probe.ret.response_time < SumD(PLog, 2)

\* ------------------------------------------------ specification: one Stats
StatCodes == {199, 200, 399, 400, 404, 503}
StatStatuses ==
  {StatusOk(c) : c \in StatCodes} \cup {ErrTransport, ErrMissing("Content-Type")}
StatTimes == {0, 10, 30}
StatOutcomes == {WebsiteStatus("/ok", s, t) : s \in StatStatuses, t \in StatTimes}

StatsInit ==
  /\ StatsIdle
  /\ ProbeIdle /\ MainIdle /\ KvIdle

\* s.record(&o), while the loop that records is running
SRecord ==
  /\ snap.n = 0
  /\ st.samples < MaxSamples
  /\ \E o \in StatOutcomes :
       /\ st' = StatsRecord(st, o)
       /\ lastRec' = [n |-> IF lastRec.n = 0 THEN 1 ELSE 2, before |-> st, o |-> o,
                      before2 |-> lastRec.before, o2 |-> lastRec.o]
  /\ UNCHANGED <<snap, pvars, mvars, rvars, kvars>>

\* s.uptime_pct() and s.avg_ms() of the final report, after the last record
SSnapshot ==
  /\ snap.n = 0
  /\ snap' = [n |-> 1, avg_ms |-> StatsAvgMs(st), uptime_pct |-> StatsUptimePct(st)]
  /\ UNCHANGED <<st, lastRec, pvars, mvars, rvars, kvars>>

StatsNext == SRecord \/ SSnapshot

SpecStats == StatsInit /\ [][StatsNext]_vars

\* C10: record(o) adds exactly 1 to samples and o's elapsed time to the
\* cumulative latency, and adds exactly 1 to ok if and only if o carries a
\* status code in 200..399; otherwise ok is unchanged.
C10_RecordCounts ==
  lastRec.n >= 1 =>
    LET b == lastRec.before
        o == lastRec.o
        success == o.status.ok /\ o.status.code \in 200..399
    IN /\ st.samples = b.samples + 1
       /\ st.total_response = b.total_response + o.response_time
       /\ success => st.ok = b.ok + 1
       /\ ~success => st.ok = b.ok

C10_Witness ==
  /\ lastRec.n >= 1
  /\ lastRec.o.status = StatusOk(503)
  /\ lastRec.o.response_time = 30
  /\ lastRec.before.ok = 2
  /\ st.ok = 2 /\ st.samples = 3

\* C11: uptime_pct is 100 * ok / samples and avg_ms is the cumulative latency
\* in milliseconds divided by samples (the whole part, avg_ms being an
\* integer), and both are 0 when samples is 0; latencies of 10 ms and 30 ms
\* average to 20 ms, and 3 successes with 1 failure are 75 percent.
C11_Snapshot ==
  snap.n = 1 =>
    LET a == snap.avg_ms
        u == snap.uptime_pct
    IN /\ st.samples = 0 => a = 0 /\ u.num = 0
       /\ st.samples > 0 =>
            /\ a * st.samples <= st.total_response
            /\ st.total_response < (a + 1) * st.samples
            /\ u.den > 0
            /\ u.num * st.samples = 100 * st.ok * u.den
       /\ (st.samples = 2 /\ lastRec.o.response_time = 10
             /\ lastRec.o2.response_time = 30) => a = 20
       /\ (st.samples = 4 /\ st.ok = 3) => u.num = 75 * u.den

C11_Witness ==
  /\ snap.n = 1
  /\ st = [samples |-> 4, ok |-> 3, total_response |-> 70]
  /\ snap.avg_ms = 17
  /\ snap.uptime_pct.num = 75 * snap.uptime_pct.den

\* C12: recording the same outcome twice adds to samples, ok and the
\* cumulative latency exactly twice what recording it once adds; on a fresh
\* Stats the second recording doubles all three.
C12_RecordAdditive ==
  (lastRec.n = 2 /\ lastRec.o = lastRec.o2) =>
    LET s0 == lastRec.before2
        s1 == lastRec.before
    IN /\ st.samples - s0.samples = 2 * (s1.samples - s0.samples)
       /\ st.ok - s0.ok = 2 * (s1.ok - s0.ok)
       /\ st.total_response - s0.total_response
            = 2 * (s1.total_response - s0.total_response)
       /\ s0 = StatsNew =>
            /\ st.samples = 2 * s1.samples
            /\ st.ok = 2 * s1.ok
            /\ st.total_response = 2 * s1.total_response

C12_Witness ==
  /\ lastRec.n = 2 /\ lastRec.o = lastRec.o2
  /\ lastRec.o.status = StatusOk(200) /\ lastRec.o.response_time = 30
  /\ lastRec.before2 = [samples |-> 1, ok |-> 0, total_response |-> 10]
  /\ st = [samples |-> 3, ok |-> 2, total_response |-> 70]

\* --------------------------------------- specification: parse_header_kv
\* The characters of the arguments: letters, '=', and whitespace.
KvAlphabet == {"A", "B", "=", " ", "\t"}

KvInit ==
  /\ \E cs \in SeqsUpTo(KvAlphabet, MaxKvLen) : kv = [s |-> cs, n |-> 0, ret |-> NoKvResult]
  /\ ProbeIdle /\ StatsIdle /\ MainIdle

\* parse_header_kv(&s)
KvParse ==
  /\ kv.n = 0
  /\ kv' = [kv EXCEPT !.n = 1, !.ret = ParseHeaderKvChars(kv.s)]
  /\ UNCHANGED <<pvars, svars, mvars, rvars>>

KvNext == KvParse

SpecKv == KvInit /\ [][KvNext]_vars

\* ------------------------------------- properties of parse_header_kv
\* t is x without the whitespace at its two ends.
IsTrimOf(t, x) ==
  \E a \in 0..Len(x) :
    /\ a + Len(t) <= Len(x)
    /\ t = SubSeq(x, a + 1, a + Len(t))
    /\ \A j \in 1..a : x[j] \in Whitespace
    /\ \A j \in (a + Len(t) + 1)..Len(x) : x[j] \in Whitespace
    /\ t # <<>> => t[1] \notin Whitespace /\ t[Len(t)] \notin Whitespace

\* C21: parse_header_kv splits its argument at the first '=' and trims both
\* parts: it returns the pair when there is an '=' and the trimmed key is not
\* empty, an empty value included ("A=" is ok), and an error when the key is
\* empty ("=B") or there is no '='.
C21_ParseHeaderKv ==
  kv.n = 1 =>
    LET s == kv.s
        r == kv.ret
        eqs == {i \in 1..Len(s) : s[i] = "="}
    IN /\ eqs = {} => ~r.ok
       /\ eqs # {} =>
            LET i == CHOOSE i \in eqs : \A j \in eqs : i <= j
                left == SubSeq(s, 1, i - 1)
                right == SubSeq(s, i + 1, Len(s))
            IN /\ r.ok <=> \E j \in 1..Len(left) : left[j] \notin Whitespace
               /\ r.ok => IsTrimOf(r.k, left) /\ IsTrimOf(r.v, right) /\ r.k # <<>>
       /\ s = <<"A", "=", "B">> => r.ok /\ r.k = <<"A">> /\ r.v = <<"B">>
       /\ s = <<"A", "=">> => r.ok /\ r.k = <<"A">> /\ r.v = <<>>
       /\ s = <<"=", "B">> => ~r.ok

C21_Witness ==
  /\ kv.n = 1 /\ kv.s = <<" ", "A", "=", "=">>
  /\ kv.ret.ok /\ kv.ret.k = <<"A">> /\ kv.ret.v = <<"=">>

\* ------------------------------------- specification: main, rounds, workers
Urls == {"/ok", "/err", "/slow"}
UrlLists == SeqsUpTo(Urls, MaxUrls) \ {<<>>}

\* The probe settings of the tests: test_run_once_ok_and_err / test_header_check
\* and test_timeout_and_retry.
ProbeSettings ==
  {[timeout |-> 2000, retries |-> 0, header_checks |-> <<<<"Content-Type", "text/plain">>>>],
   [timeout |-> 50, retries |-> 1, header_checks |-> <<>>]}

\* The Configs the tests build and hand to run_once directly: any workers >= 1
\* whatever the number of URLs (4 for 2 URLs, 2 for 1), period_secs 0.
TestConfigs ==
  {[workers |-> w, timeout |-> ps.timeout, retries |-> ps.retries, period_secs |-> 0,
    header_checks |-> ps.header_checks, urls |-> us] :
     w \in 1..MaxWorkers, ps \in ProbeSettings, us \in UrlLists}

\* Command lines: --workers, the probe settings of the tests, --period and
\* lists of different URLs in every combination, and a few more that are each
\* alone of their kind.
DistinctUrlLists ==
  {us \in UrlLists : \A i, j \in 1..Len(us) : i # j => us[i] # us[j]}
WorkerArgs == {<<"--workers", t>> : t \in {x \in DOMAIN Usize : Usize[x] \in 1..MaxWorkers}}
ProbeArgs ==
  {<<"--timeout-ms", "2000", "--header", "Content-Type=text/plain">>,
   <<"--timeout-ms", "50", "--retries", "1">>}
PeriodArgs == {<<>>, <<"--period", "1">>}
OtherArgLists ==
  {<<>>,
   <<"/ok", "/err">>,
   <<"--period", "1", "/ok", "/ok">>,
   <<"--workers", "0", "/ok", "/err">>,
   <<"--period", "1", "--file", "urls.txt">>,
   <<"--period", "1", "--header", " Server = text/html ", "/ok">>,
   <<"--header", "Server=", "/ok">>,
   <<"--period", "1", "--file", "notes.txt">>,
   <<"--file", "missing.txt", "/ok">>,
   <<"--period", "1", "--bogus", "/ok">>,
   <<"-1">>,
   <<"/ok", "--workers">>,
   <<"/ok", "--file">>,
   <<"--workers", "x", "/ok">>,
   <<"--timeout-ms", "-1", "/ok">>,
   <<"--retries", "--period", "1", "/ok">>,
   <<"--period", "x", "/ok">>,
   <<"--header", "Content-Type", "/ok">>,
   <<"--period", "1", "--header", "=text/plain", "/ok">>}
ArgLists ==
  {w \o ps \o per \o us :
     w \in WorkerArgs, ps \in ProbeArgs, per \in PeriodArgs, us \in DistinctUrlLists}
  \cup OtherArgLists

\* Either the program is started with a command line, or a test calls
\* run_once with the Config it built.
Init ==
  /\ \/ /\ entry = "main" /\ argv \in ArgLists
        /\ cfg = NoConfig /\ mpc = "main" /\ rounds = 0
     \/ /\ entry = "test" /\ argv = <<>>
        /\ cfg \in TestConfigs /\ mpc = "spawn" /\ rounds = 1
  /\ stop = FALSE /\ watcher = None
  /\ agg = <<>> /\ elapsed = 0 /\ hist = NoHist
  /\ RoundIdle
  /\ ProbeIdle /\ StatsIdle /\ KvIdle

Workers == 1..Len(wpc)
Alive(w) == wpc[w] \in {"top", "lock", "recv", "work"}
Finished(w) == wpc[w] \in {"exited", "stopped", "dead"}
Periodic == cfg.period_secs > 0

\* The phase of run_periodic a position of the main thread belongs to.
Phase(pc) ==
  IF pc \in {"spawn", "enqueue", "drop_tx", "collect", "signal", "join", "returned"}
  THEN "round"
  ELSE IF pc \in {"sleep_poll", "sleep"} THEN "sleep"
  ELSE "loop"

\* main: match parse_args().  Ok(cfg) => run_once for period_secs = 0, else
\* run_periodic, which starts the stdin watcher thread and enters its loop;
\* Err(e) => the error and the usage text, and nothing else.
Main ==
  /\ mpc = "main"
  /\ LET r == parse_args(argv) IN
       IF ~r.ok
       THEN mpc' = "usage" /\ UNCHANGED <<cfg, rounds, watcher>>
       ELSE /\ cfg' = r.cfg
            /\ IF r.cfg.period_secs = 0
               THEN mpc' = "spawn" /\ rounds' = 1 /\ UNCHANGED watcher
               ELSE mpc' = "while" /\ watcher' = "waiting" /\ UNCHANGED rounds
  /\ UNCHANGED <<argv, entry, stop, agg, elapsed, hist, rvars, pvars, svars, kvars>>

\* The watcher thread: read_line returns, sd.store(true).
StdinEnter ==
  /\ watcher = "waiting"
  /\ watcher' = "done"
  /\ stop' = TRUE
  /\ hist' = [hist EXCEPT !.stopAt = Phase(mpc)]
  /\ UNCHANGED <<argv, entry, cfg, mpc, agg, rounds, elapsed, rvars, pvars, svars, kvars>>

\* The loop testing a flag that nothing sets.
WhileTestStale(flag) == TRUE

\* The negation left out of the test of the loop.
WhileTestInverted(flag) == flag

\* !shutdown.load(Relaxed): the body of the loop runs.
WhileTest(flag) == ~flag

\* while !shutdown.load(Relaxed)
While ==
  /\ mpc = "while"
  /\ IF ~WhileTest(stop)
     THEN mpc' = "report" /\ UNCHANGED <<rounds, hist>>
     ELSE /\ rounds < MaxRounds
          /\ mpc' = "spawn"
          /\ rounds' = rounds + 1
          /\ UNCHANGED hist
  /\ UNCHANGED <<argv, entry, cfg, stop, watcher, agg, elapsed, rvars, pvars, svars, kvars>>

\* run_once up to the return of spawn_workers: fresh channels, a fresh
\* shutdown flag, cfg.workers threads at the top of their loop.
Spawn ==
  /\ mpc = "spawn"
  /\ mpc' = "enqueue"
  /\ jobq' = <<>> /\ jobTx' = TRUE /\ lock' = 0 /\ sent' = 0
  /\ resq' = <<>> /\ results' = <<>>
  /\ shutdown' = FALSE /\ joined' = 0
  /\ wpc' = [w \in 1..cfg.workers |-> "top"]
  /\ wjob' = [w \in 1..cfg.workers |-> None]
  /\ hist' = IF stop THEN [hist EXCEPT !.roundsAfterStop = @ + 1] ELSE hist
  /\ UNCHANGED <<argv, entry, cfg, stop, watcher, agg, rounds, elapsed, pvars, svars, kvars>>

\* The flag a worker polls at the top of its loop: the shutdown of run_once.
WorkerFlagExternal == stop

WorkerFlag == shutdown

\* if shutdown.load(Relaxed) { break; }
WTop(w) ==
  /\ wpc[w] = "top"
  /\ wpc' = [wpc EXCEPT ![w] = IF WorkerFlag THEN "stopped" ELSE "lock"]
  /\ UNCHANGED <<mvars, jobq, jobTx, lock, sent, resq, results, shutdown, joined, wjob, pvars, svars, kvars>>

\* job_rx.lock().unwrap()
WLock(w) ==
  /\ wpc[w] = "lock"
  /\ lock = 0
  /\ lock' = w
  /\ wpc' = [wpc EXCEPT ![w] = "recv"]
  /\ UNCHANGED <<mvars, jobq, jobTx, sent, resq, results, shutdown, joined, wjob, pvars, svars, kvars>>

\* A receive that the closing of the channel does not wake.
RecvNoneNever(q, tx) == FALSE

\* try_recv in place of recv: None whenever no job is queued.
RecvNoneTryRecv(q, tx) == q = <<>>

\* rx.recv() returns Err, so .ok() is None: no job queued and no sender left.
RecvNone(q, tx) == q = <<>> /\ ~tx

\* rx.recv().ok() under the lock, which the end of the block releases: a job,
\* or None once the channel is closed and empty; blocks otherwise.  A worker
\* that gets None is "exited"; one that broke on the flag is "stopped".
WRecv(w) ==
  /\ wpc[w] = "recv"
  /\ lock = w
  /\ \/ /\ jobq # <<>>
        /\ wjob' = [wjob EXCEPT ![w] = Head(jobq)]
        /\ jobq' = Tail(jobq)
        /\ wpc' = [wpc EXCEPT ![w] = "work"]
     \/ /\ RecvNone(jobq, jobTx)
        /\ wpc' = [wpc EXCEPT ![w] = "exited"]
        /\ UNCHANGED <<wjob, jobq>>
  /\ lock' = 0
  /\ UNCHANGED <<mvars, jobTx, sent, resq, results, shutdown, joined, pvars, svars, kvars>>

\* Some(Job::Check(url)): check_once_with_retries, then result_tx.send(status)
WCheck(w) ==
  /\ wpc[w] = "work"
  /\ resq' = Append(resq, CheckOnceWithRetries(wjob[w], cfg))
  /\ wjob' = [wjob EXCEPT ![w] = None]
  /\ wpc' = [wpc EXCEPT ![w] = "top"]
  /\ UNCHANGED <<mvars, jobq, jobTx, lock, sent, results, shutdown, joined, pvars, svars, kvars>>

\* job_tx.send(Job::Check(url.clone())).expect("send job"), one URL of the
\* for loop: the send fails, and expect panics, once every receiver is gone.
Enqueue ==
  /\ mpc = "enqueue"
  /\ IF \A w \in Workers : Finished(w)
     THEN mpc' = "panicked" /\ UNCHANGED <<jobq, sent>>
     ELSE /\ jobq' = Append(jobq, cfg.urls[sent + 1])
          /\ sent' = sent + 1
          /\ mpc' = IF sent + 1 = Len(cfg.urls) THEN "drop_tx" ELSE "enqueue"
  /\ UNCHANGED <<argv, entry, cfg, stop, watcher, agg, rounds, elapsed, hist, jobTx, lock, resq, results,
                 shutdown, joined, wpc, wjob, pvars, svars, kvars>>

\* drop(job_tx)
DropTx ==
  /\ mpc = "drop_tx"
  /\ jobTx' = FALSE
  /\ mpc' = "collect"
  /\ UNCHANGED <<argv, entry, cfg, stop, watcher, agg, rounds, elapsed, hist, jobq, lock, sent, resq,
                 results, shutdown, joined, wpc, wjob, pvars, svars, kvars>>

\* How many results the collecting loop asks for: for _ in 0..cfg.urls.len()
CollectCountWorkers(c) == c.workers

\* A collecting loop that stops at the first result.
CollectCountFirst(c) == Min(1, Len(c.urls))

CollectCount(c) == Len(c.urls)

\* One result_rx.recv() of the collecting loop: Ok(r) is pushed, Err(_) (no
\* result queued and every sender dropped) breaks; blocks otherwise.  The
\* senders are the clones the live workers hold.
Collect ==
  /\ mpc = "collect"
  /\ \/ /\ resq # <<>>
        /\ results' = Append(results, Head(resq))
        /\ resq' = Tail(resq)
        /\ mpc' = IF Len(results) + 1 >= CollectCount(cfg) THEN "signal" ELSE "collect"
     \/ /\ resq = <<>>
        /\ \A w \in Workers : ~Alive(w)
        /\ mpc' = "signal"
        /\ UNCHANGED <<results, resq>>
  /\ UNCHANGED <<argv, entry, cfg, stop, watcher, agg, rounds, elapsed, hist, jobq, jobTx, lock, sent,
                 shutdown, joined, wpc, wjob, pvars, svars, kvars>>

\* shutdown.store(true, Relaxed)
Signal ==
  /\ mpc = "signal"
  /\ shutdown' = TRUE
  /\ mpc' = "join"
  /\ UNCHANGED <<argv, entry, cfg, stop, watcher, agg, rounds, elapsed, hist, jobq, jobTx, lock, sent,
                 resq, results, joined, wpc, wjob, pvars, svars, kvars>>

\* The handles dropped without waiting for their threads.
JoinReturnsDetached(w) == TRUE

\* h.join() returns once the thread of the handle has ended.
JoinReturns(w) == Finished(w)

\* for h in workers { let _ = h.join(); }: one handle, in spawn order; after
\* the last one run_once returns results.
Join ==
  /\ mpc = "join"
  /\ JoinReturns(joined + 1)
  /\ joined' = joined + 1
  /\ mpc' = IF joined + 1 = Len(wpc) THEN "returned" ELSE "join"
  /\ UNCHANGED <<argv, entry, cfg, stop, watcher, agg, rounds, elapsed, hist, jobq, jobTx, lock, sent,
                 resq, results, shutdown, wpc, wjob, pvars, svars, kvars>>

\* The aggregate report printed inside the loop, after every round.
ReturnedReportingEachRound ==
  /\ mpc = "returned"
  /\ IF Periodic
     THEN /\ agg' = AggRecordAll(agg, results, 1)
          /\ elapsed' = 0
          /\ mpc' = "sleep_poll"
          /\ hist' = [hist EXCEPT !.reports = @ + 1]
     ELSE mpc' = "exit" /\ UNCHANGED <<agg, elapsed, hist>>
  /\ UNCHANGED <<argv, entry, cfg, stop, watcher, rounds, rvars, pvars, svars, kvars>>

\* run_periodic leaving its loop after a round with a failure outcome.
ReturnedAbortOnFailure ==
  /\ mpc = "returned"
  /\ IF Periodic
     THEN /\ agg' = AggRecordAll(agg, results, 1)
          /\ elapsed' = 0
          /\ mpc' = IF \E i \in 1..Len(results) :
                         ~results[i].status.ok \/ results[i].status.code >= 400
                    THEN "report" ELSE "sleep_poll"
     ELSE mpc' = "exit" /\ UNCHANGED <<agg, elapsed>>
  /\ UNCHANGED <<argv, entry, cfg, stop, watcher, rounds, hist, rvars, pvars, svars, kvars>>

\* The caller of run_once with its results: main prints them and ends;
\* run_periodic prints them, records each in agg and starts its sleep.
Returned ==
  /\ mpc = "returned"
  /\ IF Periodic
     THEN /\ agg' = AggRecordAll(agg, results, 1)
          /\ elapsed' = 0
          /\ mpc' = "sleep_poll"
     ELSE mpc' = "exit" /\ UNCHANGED <<agg, elapsed>>
  /\ UNCHANGED <<argv, entry, cfg, stop, watcher, rounds, hist, rvars, pvars, svars, kvars>>

\* The test of the sleeping loop: while start.elapsed() < period, and inside
\* it if shutdown.load(Relaxed) { break; }
SleepOnIgnoringFlag(e, period, flag) == e < period

\* The sleeping loop left one poll before the period is over.
SleepOnOnePollShort(e, period, flag) == e + PollMs < period /\ ~flag

SleepOn(e, period, flag) == e < period /\ ~flag

SleepPoll ==
  /\ mpc = "sleep_poll"
  /\ mpc' = IF SleepOn(elapsed, cfg.period_secs * MsPerSec, stop) THEN "sleep" ELSE "while"
  /\ UNCHANGED <<argv, entry, cfg, stop, watcher, agg, rounds, elapsed, hist, rvars, pvars, svars, kvars>>

\* thread::sleep(Duration::from_millis(100))
Sleep ==
  /\ mpc = "sleep"
  /\ elapsed' = elapsed + PollMs
  /\ mpc' = "sleep_poll"
  /\ hist' = IF stop THEN [hist EXCEPT !.sleepsAfterStop = @ + 1] ELSE hist
  /\ UNCHANGED <<argv, entry, cfg, stop, watcher, agg, rounds, rvars, pvars, svars, kvars>>

\* After the loop: the aggregate table is printed and run_periodic returns.
Report ==
  /\ mpc = "report"
  /\ mpc' = "exit"
  /\ hist' = [hist EXCEPT !.reports = @ + 1]
  /\ UNCHANGED <<argv, entry, cfg, stop, watcher, agg, rounds, elapsed, rvars, pvars, svars, kvars>>

\* A worker thread panics inside check_once_with_retries: it unwinds, dropping
\* its job, its result_tx and its job_rx clone, without sending.
WPanic(w) ==
  /\ wpc[w] = "work"
  /\ wpc' = [wpc EXCEPT ![w] = "dead"]
  /\ wjob' = [wjob EXCEPT ![w] = None]
  /\ UNCHANGED <<mvars, jobq, jobTx, lock, sent, resq, results, shutdown, joined, pvars, svars, kvars>>

MainNext ==
  \/ Main \/ StdinEnter \/ While \/ Returned \/ SleepPoll \/ Sleep \/ Report

RoundNext ==
  \/ Spawn \/ Enqueue \/ DropTx \/ Collect \/ Signal \/ Join

WorkerNext ==
  \/ \E w \in Workers : WTop(w)
  \/ \E w \in Workers : WLock(w)
  \/ \E w \in Workers : WRecv(w)
  \/ \E w \in Workers : WCheck(w)

Next == MainNext \/ RoundNext \/ WorkerNext

Spec == Init /\ [][Next]_vars

\* The program with threads that the scheduler keeps running: the main thread
\* and every worker thread take a step whenever they stay able to.  Nothing
\* makes the watcher's read_line return.  Its runs: periodic ones of every
\* worker count over lists of the two URLs that answer at once, a single run
\* and a rejected command line; and the tests' Configs over the same lists.
LiveUrlLists == {us \in DistinctUrlLists : \A i \in 1..Len(us) : us[i] \in {"/ok", "/err"}}
LiveArgLists ==
  {w \o <<"--period", "1">> \o us : w \in WorkerArgs, us \in LiveUrlLists}
  \cup {<<"/ok", "/err">>, <<>>}
LiveTestConfigs == {c \in TestConfigs : c.urls \in LiveUrlLists /\ c.retries = 0}

LiveInit ==
  /\ \/ /\ entry = "main" /\ argv \in LiveArgLists
        /\ cfg = NoConfig /\ mpc = "main" /\ rounds = 0
     \/ /\ entry = "test" /\ argv = <<>>
        /\ cfg \in LiveTestConfigs /\ mpc = "spawn" /\ rounds = 1
  /\ stop = FALSE /\ watcher = None
  /\ agg = <<>> /\ elapsed = 0 /\ hist = NoHist
  /\ RoundIdle
  /\ ProbeIdle /\ StatsIdle /\ KvIdle

MainThread ==
  \/ Main \/ While \/ Returned \/ SleepPoll \/ Sleep \/ Report
  \/ Spawn \/ Enqueue \/ DropTx \/ Collect \/ Signal \/ Join

WorkerThread(w) ==
  /\ w \in Workers
  /\ WTop(w) \/ WLock(w) \/ WRecv(w) \/ WCheck(w)

MaxThreads == Max(MaxWorkers, MaxUrls)

Fairness ==
  /\ WF_vars(MainThread)
  /\ \A w \in 1..MaxThreads : WF_vars(WorkerThread(w))

SpecLive == LiveInit /\ [][Next]_vars /\ Fairness

\* The same program with worker threads that can panic.
NextFault == Next \/ \E w \in Workers : WPanic(w)

SpecFault == Init /\ [][NextFault]_vars

\* The runs of SpecLive with worker threads that can panic, and no assumption
\* on the scheduling.
SpecPanic == LiveInit /\ [][NextFault]_vars

\* ---------------------------------------- properties of rounds and the loop
Count(seq, u) == Cardinality({i \in 1..Len(seq) : seq[i] = u})
ResultUrls == [i \in 1..Len(results) |-> results[i].url]

\* The batch run_once returns holds one outcome per submitted URL.
CompleteBatch ==
  /\ Len(results) = Len(cfg.urls)
  /\ \A u \in Urls : Count(ResultUrls, u) = Count(cfg.urls, u)

Samples(u) == IF u \in DOMAIN agg THEN agg[u].samples ELSE 0

\* Every round started so far is in agg with all its outcomes.
AggComplete == \A u \in Urls : Samples(u) = rounds * Count(cfg.urls, u)

AfterRecord == mpc \in {"sleep_poll", "sleep", "while", "report", "exit"}

\* C1: whatever the interleaving of the workers, the batch run_once returns
\* has exactly len(urls) outcomes and the same multiset of URLs as submitted.
C1_BatchComplete == mpc = "returned" => CompleteBatch

C1_Witness ==
  /\ mpc = "returned"
  /\ cfg.workers = 2
  /\ cfg.urls = <<"/slow", "/ok">>
  /\ ResultUrls = <<"/ok", "/slow">>

\* C2: when a worker died without publishing the outcome of its job, run_once
\* does not return a batch shorter than len(urls) (its Vec is the only thing
\* it can return: there is no incomplete-round report).
C2_NoShortBatch ==
  (mpc = "returned" /\ \E w \in Workers : wpc[w] = "dead")
    => Len(results) = Len(cfg.urls)

\* C3: in periodic mode a stop flag set while run_once is executing does not
\* preempt the round: the round returns all len(urls) outcomes, and all of them
\* are in agg by the time run_periodic checks the flag and leaves its loop.
C3_RoundNotPreempted ==
  (Periodic /\ hist.stopAt = "round") =>
    /\ mpc = "returned" => CompleteBatch
    /\ AfterRecord => AggComplete

C3_Witness ==
  /\ Periodic /\ hist.stopAt = "round"
  /\ mpc = "report"
  /\ rounds = 2
  /\ cfg.urls = <<"/ok", "/ok">>
  /\ "/ok" \in DOMAIN agg /\ agg["/ok"].samples = 4

\* C4: a stop flag set during the sleep phase ends the loop within one polling
\* step (at most one more 100 ms sleep), before the period is over, and no
\* round starts after it.
C4_StopDuringSleep ==
  (Periodic /\ hist.stopAt = "sleep") =>
    /\ hist.sleepsAfterStop <= 1
    /\ hist.roundsAfterStop = 0
    /\ mpc \in {"sleep_poll", "sleep", "while", "report", "exit"}
    /\ (mpc = "sleep" /\ stop) => hist.sleepsAfterStop = 0

C4_Witness ==
  /\ Periodic /\ hist.stopAt = "sleep"
  /\ mpc = "exit"
  /\ hist.sleepsAfterStop = 1
  /\ elapsed = 2 * PollMs
  /\ elapsed < cfg.period_secs * MsPerSec

\* ------------------------------------------------- properties of the pool
\* run_once has started its workers and has not returned to its caller.
RoundRunning == mpc \in {"enqueue", "drop_tx", "collect", "signal", "join", "returned"}

\* The N of the last "--workers N" of a command line parse_args accepts, and
\* the default of 50 when there is none.
Requested(args) ==
  LET at == {i \in 1..(Len(args) - 1) : args[i] = "--workers"}
  IN IF at = {} THEN DefaultConfig.workers
     ELSE Usize[args[(CHOOSE i \in at : \A j \in at : j <= i) + 1]]

\* C13 (as stated): for any Config run_once is given, the number of worker
\* threads it starts is max(1, min(cfg.workers, number of URLs)).
C13_WorkersClamped ==
  RoundRunning => Len(wpc) = Max(1, Min(cfg.workers, Len(cfg.urls)))

\* C13 (amended): run_once starts exactly cfg.workers threads; for a Config
\* that parse_args returned this is max(1, min(requested workers, number of
\* URLs)), so never more than the URLs and never fewer than one.
C13_WorkersAsConfigured ==
  RoundRunning =>
    /\ Len(wpc) = cfg.workers
    /\ entry = "main" =>
         /\ Len(wpc) = Max(1, Min(Requested(argv), Len(cfg.urls)))
         /\ 1 <= Len(wpc) /\ Len(wpc) <= Len(cfg.urls)

C13_Witness ==
  /\ entry = "main" /\ mpc = "collect" /\ Len(wpc) = 1
  /\ Requested(argv) = 2 /\ Len(cfg.urls) = 1

\* C14 (as stated): a worker leaves its loop only after observing the job
\* queue closed and empty, never because it read a flag.
C14_OnlyQueueClosure == \A w \in Workers : wpc[w] # "stopped"

\* C14 (amended): a worker leaves its loop after observing the job queue
\* closed and empty, or after reading the shutdown flag of its round set; in
\* both cases the job queue is already closed and empty, and the flag is set
\* only once run_once has collected its results.
C14_ExitAfterClosure ==
  \A w \in Workers :
    /\ wpc[w] \in {"exited", "stopped"} => ~jobTx /\ jobq = <<>>
    /\ wpc[w] = "stopped" =>
         /\ shutdown
         /\ mpc \notin {"enqueue", "drop_tx", "collect", "signal"}
         /\ Len(results) = Len(cfg.urls)

C14_Witness ==
  /\ mpc = "join" /\ Len(wpc) = 2
  /\ wpc[1] = "stopped" /\ wpc[2] = "exited"

\* C15: run_once returns only after every worker thread it started has
\* exited, so no worker of a round is alive while run_periodic records that
\* round or while a later round is started; the aggregate holds nothing of a
\* round until run_once has returned, and all of it before the next starts.
C15_WorkersGoneAtReturn ==
  /\ mpc \notin {"enqueue", "drop_tx", "collect", "signal", "join"} =>
       \A w \in Workers : Finished(w)
  /\ (Periodic /\ (mpc = "spawn" \/ RoundRunning)) =>
       \A u \in Urls : Samples(u) = (rounds - 1) * Count(cfg.urls, u)
  /\ (Periodic /\ AfterRecord) => AggComplete

C15_Witness ==
  /\ Periodic /\ rounds = 2 /\ mpc = "returned"
  /\ Len(wpc) = 2 /\ wpc[1] = "stopped" /\ wpc[2] = "exited"
  /\ Samples("/ok") = 1 /\ Len(results) = 2

\* ------------------------------------------------- properties of the loop
\* run_periodic has left its loop.
Stopped == Periodic /\ mpc \in {"report", "exit"}

\* C16 (as stated): every periodic run executes at least one round before it
\* reaches Stopped, whenever the stop trigger fires.
C16_AtLeastOneRound == Stopped => rounds >= 1

\* C16 (amended): a periodic run reaches Stopped without a round only if the
\* stop flag was set before the first test of the loop; then nothing was
\* started or recorded.  Otherwise its first round ran in full and is in the
\* aggregate.
C16_RoundUnlessStoppedFirst ==
  Stopped =>
    /\ stop
    /\ rounds = 0 => hist.stopAt = "loop" /\ agg = <<>> /\ wpc = <<>>
    /\ hist.stopAt # "loop" => rounds >= 1
    /\ rounds >= 1 => AggComplete

C16_Witness ==
  /\ Stopped /\ mpc = "report" /\ rounds = 1 /\ hist.stopAt = "round"
  /\ Samples("/ok") = 1

\* C17: a round begins when the test of the loop lets the body run.  It does
\* so only with the stop flag unset, and for a round other than the first only
\* after the period has been slept in full since the previous round was
\* recorded, so no two rounds are less than the period apart.
C17_RoundAfterFullSleep ==
  [][(mpc = "while" /\ mpc' = "spawn") =>
       /\ ~stop /\ ~stop'
       /\ rounds' = rounds + 1
       /\ rounds >= 1 => elapsed >= cfg.period_secs * MsPerSec]_vars

C17_Witness ==
  /\ Periodic /\ rounds = 2 /\ mpc = "spawn" /\ ~stop
  /\ elapsed = cfg.period_secs * MsPerSec
  /\ Samples("/err") = 1

\* C18: probe failures never end the periodic loop: whatever its outcomes, a
\* round is recorded in full (a failure adds a sample and no success) and is
\* followed by the sleep phase, and run_periodic leaves its loop only in a
\* state where the stop flag is set.
C18_FailuresDoNotEndLoop ==
  [][/\ (Periodic /\ mpc = "returned" /\ mpc' # "returned") =>
          /\ mpc' = "sleep_poll"
          /\ AggComplete'
          /\ \A u \in DOMAIN agg' \cap {"/err"} : agg'[u].ok = 0
     /\ (mpc = "while" /\ mpc' = "report") => stop /\ stop'
     /\ (mpc' = "report") => mpc \in {"while", "report"}]_vars

C18_Witness ==
  /\ Periodic /\ mpc = "sleep" /\ ~stop /\ rounds = 2
  /\ cfg.urls = <<"/err", "/slow">> /\ cfg.timeout = 50
  /\ agg["/err"] = [samples |-> 2, ok |-> 0, total_response |-> 0]
  /\ agg["/slow"].samples = 2 /\ agg["/slow"].ok = 0

\* ------------------------------------------- properties of the command line
\* The positions of a command line that are read as an argument, the others
\* being the values of the flags before them.
RECURSIVE ArgPositions(_, _)
ArgPositions(args, i) ==
  IF i > Len(args) THEN {}
  ELSE {i} \cup ArgPositions(args, IF args[i] \in FlagNames THEN i + 2 ELSE i + 1)

\* A flag is unknown, lacks its value or has a value that cannot be parsed.
BadFlag(args) ==
  \E i \in ArgPositions(args, 1) :
    \/ args[i] \notin FlagNames /\ Chars(args[i]) # <<>> /\ Chars(args[i])[1] = "-"
    \/ args[i] \in FlagNames /\ i = Len(args)
    \/ args[i] \in NumFlags /\ i < Len(args) /\ args[i + 1] \notin DOMAIN Usize
    \/ /\ args[i] = "--header" /\ i < Len(args)
       /\ LET cs == Chars(args[i + 1])
          IN \/ \A j \in 1..Len(cs) : cs[j] # "="
             \/ \A j \in 1..(FirstEq(cs) - 1) : cs[j] = " "

\* A file named by --file cannot be read.
BadFile(args) ==
  \E i \in ArgPositions(args, 1) :
    args[i] = "--file" /\ i < Len(args) /\ args[i + 1] \notin DOMAIN FileSystem

\* No argument is a URL and no file named by --file has a line with a URL.
NoUrls(args) ==
  \A i \in ArgPositions(args, 1) :
    /\ args[i] \in FlagNames
    /\ (args[i] = "--file" /\ i < Len(args) /\ args[i + 1] \in DOMAIN FileSystem) =>
         \A k \in 1..Len(FileSystem[args[i + 1]]) :
           LET line == Trim(Chars(FileSystem[args[i + 1]][k]))
           IN line = <<>> \/ line[1] = "#"

\* main has matched Ok(cfg) and not yet started the run.
ParsedOk == (mpc = "while" /\ rounds = 0) \/ (mpc = "spawn" /\ rounds = 1 /\ ~Periodic)

\* C19: when the URL list is empty after all arguments are read, or a flag is
\* unknown, lacks its value or has an unparsable value, parse_args returns an
\* error and main starts neither run_once nor run_periodic; every Config that
\* parse_args returns has a non-empty URL list and 1 <= workers <= number of
\* URLs.  The command line never changes, so what main does with it is
\* read off the state its match leaves.
C19_ConfigErrorsRejected ==
  (entry = "main" /\ mpc # "main") =>
    /\ ParsedOk => ~NoUrls(argv) /\ ~BadFlag(argv) /\ ~BadFile(argv)
    /\ mpc = "usage" =>
         /\ NoUrls(argv) \/ BadFlag(argv) \/ BadFile(argv)
         /\ cfg = NoConfig /\ rounds = 0 /\ watcher = None /\ agg = <<>>
         /\ RoundIdle
    /\ mpc # "usage" =>
         /\ cfg.urls # <<>>
         /\ 1 <= cfg.workers /\ cfg.workers <= Len(cfg.urls)

C19_Witness ==
  /\ entry = "main" /\ mpc = "usage"
  /\ argv = <<"--period", "1", "--file", "notes.txt">>
  /\ NoUrls(argv) /\ ~BadFlag(argv) /\ RoundIdle

\* ------------------------------------------------ properties of the report
\* C20: the aggregate report is printed exactly once per periodic run, only
\* after the loop has ended, and holds every result of every round that was
\* started; none is printed while rounds can still run.
C20_ReportOnceAfterLoop ==
  /\ hist.reports <= 1
  /\ hist.reports = 1 =>
       /\ Periodic /\ mpc = "exit" /\ stop
       /\ AggComplete
       /\ \A w \in Workers : Finished(w)
  /\ (Periodic /\ mpc = "exit") => hist.reports = 1
  /\ mpc # "exit" => hist.reports = 0

C20_Witness ==
  /\ hist.reports = 1 /\ mpc = "exit" /\ rounds = 2
  /\ cfg.urls = <<"/ok", "/err">>
  /\ agg["/ok"].samples = 2 /\ agg["/ok"].ok = 2
  /\ agg["/err"].samples = 2 /\ agg["/err"].ok = 0

\* --------------------------------------------- properties of termination
\* C22: once the stop flag is set, run_periodic reaches Stopped: it leaves its
\* loop and prints the aggregate.  A stop set during a round takes effect
\* right after the round is recorded, with no sleep at all; a stop set during
\* the sleep ends it within one poll.
C22_StopLeadsToStopped ==
  /\ (Periodic /\ stop) ~> (Stopped /\ mpc = "exit" /\ hist.reports = 1)
  /\ []((Periodic /\ hist.stopAt = "round") => hist.sleepsAfterStop = 0)
  /\ []((Periodic /\ hist.stopAt = "sleep") =>
          hist.sleepsAfterStop <= 1 /\ hist.roundsAfterStop = 0)

C22_Witness ==
  /\ Stopped /\ mpc = "exit" /\ hist.reports = 1
  /\ hist.stopAt = "round" /\ hist.sleepsAfterStop = 0
  /\ rounds = 1 /\ Len(wpc) = 2

\* A worker sits in recv with the job_rx mutex held and nothing to receive.
BlockedHolder(w) == wpc[w] = "recv" /\ lock = w /\ jobq = <<>> /\ jobTx

\* C23: run_once always terminates and never deadlocks: whatever the worker
\* count, the URL count and the interleaving, every job is taken, every
\* result is received, every worker exits and is joined, and run_once
\* returns; a worker blocked in recv with the mutex held stops neither the
\* producer, which is still enqueueing or about to close the queue, nor the
\* other workers, which exit once it has.
C23_RunOnceTerminates ==
  /\ (mpc = "enqueue") ~> (mpc = "returned")
  /\ [](mpc = "returned" =>
          /\ sent = Len(cfg.urls) /\ jobq = <<>> /\ ~jobTx
          /\ Len(results) = Len(cfg.urls) /\ resq = <<>>
          /\ joined = Len(wpc) /\ lock = 0
          /\ \A w \in Workers : wpc[w] \in {"exited", "stopped"})
  /\ []((\E w \in Workers : BlockedHolder(w)) =>
          /\ mpc \in {"enqueue", "drop_tx"}
          /\ ENABLED (Enqueue \/ DropTx))

C23_Witness ==
  /\ mpc = "returned" /\ entry = "test"
  /\ Len(cfg.urls) = 1 /\ wpc = <<"exited", "exited">>
  /\ Len(results) = 1 /\ joined = 2

\* A worker is at the top of its loop with the flag of its round set: its
\* next step reads the flag and breaks.
ObservesFlag(w) == wpc[w] = "top" /\ shutdown

\* C24: run_once sets the shutdown flag of a round only after it has closed
\* the job queue and, unless a worker has died, received all len(urls)
\* results; so whenever a worker observes the flag set, or has left its loop
\* on it, the job queue is closed and empty, and every job enqueued has been
\* taken: the flag makes no worker skip a job.
C24_FlagAfterQueueDrained ==
  /\ shutdown =>
       /\ ~jobTx
       /\ mpc \notin {"enqueue", "drop_tx", "collect", "signal"}
       /\ (\A w \in Workers : wpc[w] # "dead") =>
             Len(results) = Len(cfg.urls) /\ sent = Len(cfg.urls)
  /\ \A w \in Workers :
       (ObservesFlag(w) \/ wpc[w] = "stopped") =>
         /\ jobq = <<>>
         /\ Len(results) + Cardinality({v \in Workers : wpc[v] = "dead"}) >= sent

C24_Witness ==
  /\ mpc = "join" /\ Len(cfg.urls) = 2 /\ Len(results) = 2
  /\ Len(wpc) = 2 /\ ObservesFlag(1) /\ wpc[2] = "stopped"
  /\ jobq = <<>>

\* ------------------------------------------ properties of the aggregate
ConfiguredUrls == {cfg.urls[i] : i \in 1..Len(cfg.urls)}

\* The rounds run_periodic has recorded: all those started, less the one in
\* progress.
Recorded == IF AfterRecord THEN rounds ELSE rounds - 1

\* C25: in periodic mode no entry of the aggregate is ever removed and no
\* count of samples ever decreases; its keys are configured URLs; once k >= 1
\* rounds have been recorded every configured URL u has an entry whose
\* samples is k times the number of occurrences of u in the URL list; and
\* every entry has 0 <= ok <= samples.
C25_AggregateBookkeeping ==
  /\ [][/\ DOMAIN agg \subseteq DOMAIN agg'
        /\ \A u \in DOMAIN agg :
             /\ agg'[u].samples >= agg[u].samples
             /\ agg'[u].ok >= agg[u].ok]_vars
  /\ []((Periodic /\ rounds >= 1) =>
          /\ DOMAIN agg \subseteq ConfiguredUrls
          /\ Recorded >= 1 => DOMAIN agg = ConfiguredUrls
          /\ \A u \in ConfiguredUrls : Samples(u) = Recorded * Count(cfg.urls, u)
          /\ \A u \in DOMAIN agg : 0 <= agg[u].ok /\ agg[u].ok <= agg[u].samples)
  /\ [](rounds = 0 => agg = <<>>)

C25_Witness ==
  /\ Periodic /\ mpc = "sleep_poll" /\ rounds = 2
  /\ cfg.urls = <<"/ok", "/ok">>
  /\ DOMAIN agg = {"/ok"}
  /\ agg["/ok"].samples = 4 /\ agg["/ok"].ok = 4

====
